---- MODULE Spec2Model ----
(***************************************************************************)
(* uni-stg: one storage contract (ClientInterface) over two providers, AWS *)
(* S3 (AWSClient) and Google Cloud Storage (GoogleCloud).  The adapters    *)
(* hold no state of their own; the state is the provider's buckets and     *)
(* objects, and the call the caller is awaiting: the SDK requests it       *)
(* issued and what it returned.                                            *)
(*                                                                         *)
(* A Rust String that names an object is a sequence of its "/"-separated   *)
(* segments (<<"b1", "k1">> is "b1/k1"); a Vec<u8> is a sequence of bytes; *)
(* an Option is <<>> (None) or <<x>> (Some(x)).                            *)
(***************************************************************************)
EXTENDS Integers, Sequences, FiniteSets, TLC

VARIABLES adapter, store, call, hist

vars == <<adapter, store, call, hist>>

\* Longest payload a caller uploads, and the largest byte offset it asks for.
MaxLen == 2
\* Largest "small" max_results a caller passes to a listing.
MaxResults == 2

None == <<>>
Some(x) == <<x>>
IsSome(o) == Len(o) = 1
Unwrap(o) == o[1]

Adapters == {"AWSClient", "GoogleCloudClient"}
\* The names a caller uses, in the order the providers list them.
BucketList == <<"b1", "b2">>
KeyList == << <<"k1">>, <<"k2">> >>
Buckets == {BucketList[i] : i \in DOMAIN BucketList}
Keys == {KeyList[i] : i \in DOMAIN KeyList}
\* What a caller passes as src_object of copy_object: a key, or "bucket/key".
SrcNames == Keys \cup {<<"b1", "k1">>}
Payloads == {[i \in 1..n |-> i] : n \in 0..MaxLen}
Offsets == {None} \cup {Some(i) : i \in 0..MaxLen}
\* A u32 is its top bit and its low 31 bits (TLC's integers are 32-bit).
I32Max == 2147483647
U32(top, low) == [top |-> top, low |-> low]
MaxResultsArgs ==
    {None} \cup {Some(U32(0, n)) : n \in 0..MaxResults} \cup {Some(U32(1, 0)), Some(U32(1, I32Max))}

\* `x as i32` for a u32 x: the same 32 bits, read in two's complement.
AsI32(n) == IF n.top = 1 THEN (n.low - I32Max) - 1 ELSE n.low
\* k <= n, for a small natural k and a u32 n.
LeqU32(k, n) == n.top = 1 \/ k <= n.low

(***************************************************************************)
(* The provider: buckets, and objects [bucket, key, data].                 *)
(***************************************************************************)
EmptyStore == [buckets |-> {}, objects |-> {}]

HasBucket(st, b) == b \in st.buckets
HasObject(st, b, k) == \E o \in st.objects : o.bucket = b /\ o.key = k
DataOf(st, b, k) == (CHOOSE o \in st.objects : o.bucket = b /\ o.key = k).data
KeysOf(st, b) == {o.key : o \in {x \in st.objects : x.bucket = b}}
PutData(st, b, k, d) ==
    [st EXCEPT !.objects = {o \in @ : ~(o.bucket = b /\ o.key = k)}
                             \cup {[bucket |-> b, key |-> k, data |-> d]}]
DelData(st, b, k) ==
    [st EXCEPT !.objects = {o \in @ : ~(o.bucket = b /\ o.key = k)}]

\* Both providers list in the order of the names.
Listing(S, order) == SelectSeq(order, LAMBDA x : x \in S)
Take(s, n) == SubSeq(s, 1, IF n < Len(s) THEN n ELSE Len(s))

\* An entity tag identifies the content; it is a string of one segment.
ETag(d) == <<"etag:" \o ToString(d)>>

\* The bytes an HTTP Range header selects (RFC 7233), as both providers do:
\* first-last inclusive, first-, or -suffix; None when it is unsatisfiable.
\* A header whose last is before its first is ignored: the whole content.
RangeBytes(d, first, last) ==
    IF IsSome(first) THEN
        IF IsSome(last) /\ Unwrap(last) < Unwrap(first) THEN Some(d)
        ELSE IF Unwrap(first) >= Len(d) THEN None
        ELSE Some(SubSeq(d, Unwrap(first) + 1,
                         IF IsSome(last) /\ Unwrap(last) < Len(d) - 1
                         THEN Unwrap(last) + 1 ELSE Len(d)))
    ELSE IF IsSome(last) THEN
        IF Unwrap(last) = 0 THEN None
        ELSE Some(SubSeq(d, IF Unwrap(last) >= Len(d) THEN 1 ELSE Len(d) - Unwrap(last) + 1, Len(d)))
    ELSE Some(d)

(***************************************************************************)
(* The AWS SDK (aws_sdk_s3::Client) and S3 behind it.  A request is the    *)
(* record of the builder's fields; `net` is whether the transport works    *)
(* for this request.  A response is [ok, err, out, store].                 *)
(***************************************************************************)
\* Fail: the SDK or the service refuses the request; NetFail: the transport fails.
Fail(st, code) == [ok |-> FALSE, transport |-> FALSE, err |-> code, out |-> None, store |-> st]
NetFail(st, code) == [ok |-> FALSE, transport |-> TRUE, err |-> code, out |-> None, store |-> st]
Done(st, out) == [ok |-> TRUE, transport |-> FALSE, err |-> "", out |-> out, store |-> st]

\* The Range header as its tokens, and the provider's reading of it.
Tok(t, v) == [t |-> t, v |-> v]
ParseRange(h) ==
    IF Len(h) = 4 THEN [first |-> Some(h[2].v), last |-> Some(h[4].v)]
    ELSE IF h[2].t = "num" THEN [first |-> Some(h[2].v), last |-> None]
    ELSE [first |-> None, last |-> Some(h[3].v)]

\* GetObject: the key is a required member, so a request without one fails
\* in the SDK (a construction failure) before anything is sent.
S3GetObject(st, req, net) ==
    IF ~IsSome(req.key) THEN Fail(st, "ConstructionFailure")
    ELSE IF ~net THEN NetFail(st, "DispatchFailure")
    ELSE IF ~HasBucket(st, req.bucket) THEN Fail(st, "NoSuchBucket")
    ELSE IF ~HasObject(st, req.bucket, Unwrap(req.key)) THEN Fail(st, "NoSuchKey")
    ELSE LET d == DataOf(st, req.bucket, Unwrap(req.key))
             r == IF IsSome(req.range) THEN ParseRange(Unwrap(req.range))
                  ELSE [first |-> None, last |-> None]
             body == RangeBytes(d, r.first, r.last)
         IN IF IsSome(req.if_match) /\ Unwrap(req.if_match) # ETag(d)
            THEN Fail(st, "PreconditionFailed")
            ELSE IF ~IsSome(body) THEN Fail(st, "InvalidRange")
            ELSE Done(st, [body |-> Unwrap(body), e_tag |-> Some(ETag(d)),
                           content_length |-> Some(Len(Unwrap(body))),
                           content_type |-> Some("binary/octet-stream")])

S3PutObject(st, req, net) ==
    IF ~net THEN NetFail(st, "DispatchFailure")
    ELSE IF ~HasBucket(st, req.bucket) THEN Fail(st, "NoSuchBucket")
    ELSE Done(PutData(st, req.bucket, req.key, req.body),
              [e_tag |-> Some(ETag(req.body)), size |-> None])

S3DeleteBucket(st, req, net) ==
    IF ~net THEN NetFail(st, "DispatchFailure")
    ELSE IF ~HasBucket(st, req.bucket) THEN Fail(st, "NoSuchBucket")
    ELSE IF KeysOf(st, req.bucket) # {} THEN Fail(st, "BucketNotEmpty")
    ELSE Done([st EXCEPT !.buckets = @ \ {req.bucket}], None)

\* DeleteObject of a key that is not there succeeds.
S3DeleteObject(st, req, net) ==
    IF ~net THEN NetFail(st, "DispatchFailure")
    ELSE IF ~HasBucket(st, req.bucket) THEN Fail(st, "NoSuchBucket")
    ELSE Done(DelData(st, req.bucket, req.key), None)

S3CreateBucket(st, req, net) ==
    IF ~net THEN NetFail(st, "DispatchFailure")
    ELSE IF HasBucket(st, req.bucket) THEN Fail(st, "BucketAlreadyOwnedByYou")
    ELSE Done([st EXCEPT !.buckets = @ \cup {req.bucket}],
              [location |-> Some(<<"", req.bucket>>)])

\* CopyObject: copy_source is "sourcebucket/sourcekey".
S3CopyObject(st, req, net) ==
    IF ~net THEN NetFail(st, "DispatchFailure")
    ELSE IF Len(req.copy_source) < 2 THEN Fail(st, "InvalidArgument")
    ELSE LET sb == Head(req.copy_source)
             sk == Tail(req.copy_source)
         IN IF ~HasBucket(st, sb) \/ ~HasBucket(st, req.bucket) THEN Fail(st, "NoSuchBucket")
            ELSE IF ~HasObject(st, sb, sk) THEN Fail(st, "NoSuchKey")
            ELSE Done(PutData(st, req.bucket, req.key, DataOf(st, sb, sk)),
                      [copy_object_result |-> Some([e_tag |-> Some(ETag(DataOf(st, sb, sk)))])])

\* The listings return one page, of at most the maximum asked for.
S3ListBuckets(st, req, net) ==
    IF ~net THEN NetFail(st, "DispatchFailure")
    ELSE IF IsSome(req.max_buckets) /\ Unwrap(req.max_buckets) < 0 THEN Fail(st, "InvalidArgument")
    ELSE LET all == Listing(st.buckets, BucketList)
             page == IF IsSome(req.max_buckets) THEN Take(all, Unwrap(req.max_buckets)) ELSE all
         IN Done(st, [buckets |-> Some([i \in DOMAIN page |->
                                           [name |-> Some(page[i]), bucket_region |-> Some("us-east-1")]]),
                      continuation_token |-> IF Len(page) < Len(all) THEN Some("next") ELSE None])

\* `loc`: the location S3 reports for the bucket (none for us-east-1).
S3GetBucketLocation(st, req, net, loc) ==
    IF ~net THEN NetFail(st, "DispatchFailure")
    ELSE IF ~HasBucket(st, req.bucket) THEN Fail(st, "NoSuchBucket")
    ELSE Done(st, [location_constraint |-> loc])

S3ListObjects(st, req, net) ==
    IF ~net THEN NetFail(st, "DispatchFailure")
    ELSE IF ~HasBucket(st, req.bucket) THEN Fail(st, "NoSuchBucket")
    ELSE IF IsSome(req.max_keys) /\ Unwrap(req.max_keys) < 0 THEN Fail(st, "InvalidArgument")
    ELSE LET all == Listing(KeysOf(st, req.bucket), KeyList)
             page == IF IsSome(req.max_keys) THEN Take(all, Unwrap(req.max_keys)) ELSE all
         IN Done(st, [contents |-> Some([i \in DOMAIN page |->
                                            [key |-> Some(page[i]),
                                             e_tag |-> Some(ETag(DataOf(st, req.bucket, page[i])))]]),
                      is_truncated |-> Len(page) < Len(all)])

(***************************************************************************)
(* The Google Cloud SDK (google_cloud_storage::client::Client) and the     *)
(* service behind it.  An error is Error::Response (a service error, with  *)
(* its items) or Error::HttpClient (the transport).                        *)
(***************************************************************************)
GcsResponse(code) == [kind |-> "Response", errors |-> <<code>>]
GcsHttpClient == [kind |-> "HttpClient", errors |-> <<>>]
GcsObject(b, k, d) ==
    [name |-> k, bucket |-> b, id |-> <<b>> \o k \o <<"1">>, size |-> Len(d),
     content_type |-> Some("application/octet-stream")]
GcsBucket(b) == [name |-> b, id |-> b, location |-> "US"]

GcsDownloadObject(st, req, range, net) ==
    IF ~net THEN NetFail(st, GcsHttpClient)
    ELSE IF ~HasBucket(st, req.bucket) \/ ~HasObject(st, req.bucket, req.object)
    THEN Fail(st, GcsResponse("notFound"))
    ELSE LET body == RangeBytes(DataOf(st, req.bucket, req.object), range[1], range[2])
         IN IF IsSome(body) THEN Done(st, Unwrap(body))
            ELSE Fail(st, GcsResponse("requestedRangeNotSatisfiable"))

GcsUploadObject(st, req, data, media, net) ==
    IF ~net THEN NetFail(st, GcsHttpClient)
    ELSE IF ~HasBucket(st, req.bucket) THEN Fail(st, GcsResponse("notFound"))
    ELSE Done(PutData(st, req.bucket, media, data), GcsObject(req.bucket, media, data))

\* signed_url: `net` is whether the signing succeeds.
GcsSignedUrl(st, bucket, object, method, net) ==
    IF ~net THEN Fail(st, [kind |-> "SignedURLError", errors |-> <<>>])
    ELSE Done(st, <<"https:", "", "storage.googleapis.com", bucket>> \o object \o <<"?X-Goog-Signature", method>>)

GcsDeleteBucket(st, req, net) ==
    IF ~net THEN NetFail(st, GcsHttpClient)
    ELSE IF ~HasBucket(st, req.bucket) THEN Fail(st, GcsResponse("notFound"))
    ELSE IF KeysOf(st, req.bucket) # {} THEN Fail(st, GcsResponse("conflict"))
    ELSE Done([st EXCEPT !.buckets = @ \ {req.bucket}], None)

\* Deleting an object that is not there is a notFound error.
GcsDeleteObject(st, req, net) ==
    IF ~net THEN NetFail(st, GcsHttpClient)
    ELSE IF ~HasBucket(st, req.bucket) \/ ~HasObject(st, req.bucket, req.object)
    THEN Fail(st, GcsResponse("notFound"))
    ELSE Done(DelData(st, req.bucket, req.object), None)

GcsInsertBucket(st, req, net) ==
    IF ~net THEN NetFail(st, GcsHttpClient)
    ELSE IF HasBucket(st, req.name) THEN Fail(st, GcsResponse("conflict"))
    ELSE Done([st EXCEPT !.buckets = @ \cup {req.name}], GcsBucket(req.name))

GcsCopyObject(st, req, net) ==
    IF ~net THEN NetFail(st, GcsHttpClient)
    ELSE IF ~HasBucket(st, req.source_bucket) \/ ~HasBucket(st, req.destination_bucket)
            \/ ~HasObject(st, req.source_bucket, req.source_object)
    THEN Fail(st, GcsResponse("notFound"))
    ELSE LET d == DataOf(st, req.source_bucket, req.source_object)
         IN Done(PutData(st, req.destination_bucket, req.destination_object, d),
                 GcsObject(req.destination_bucket, req.destination_object, d))

GcsListBuckets(st, req, net) ==
    IF ~net THEN NetFail(st, GcsHttpClient)
    ELSE IF IsSome(req.max_results) /\ Unwrap(req.max_results) < 0 THEN Fail(st, GcsResponse("invalid"))
    ELSE LET all == Listing(st.buckets, BucketList)
             page == IF IsSome(req.max_results) THEN Take(all, Unwrap(req.max_results)) ELSE all
         IN Done(st, [items |-> [i \in DOMAIN page |-> GcsBucket(page[i])],
                      next_page_token |-> IF Len(page) < Len(all) THEN Some("next") ELSE None])

GcsGetBucket(st, req, net) ==
    IF ~net THEN NetFail(st, GcsHttpClient)
    ELSE IF ~HasBucket(st, req.bucket) THEN Fail(st, GcsResponse("notFound"))
    ELSE Done(st, GcsBucket(req.bucket))

GcsGetObject(st, req, net) ==
    IF ~net THEN NetFail(st, GcsHttpClient)
    ELSE IF ~HasBucket(st, req.bucket) \/ ~HasObject(st, req.bucket, req.object)
    THEN Fail(st, GcsResponse("notFound"))
    ELSE Done(st, GcsObject(req.bucket, req.object, DataOf(st, req.bucket, req.object)))

\* `omit`: whether the response leaves out an empty "items" (items: Option).
GcsListObjects(st, req, net, omit) ==
    IF ~net THEN NetFail(st, GcsHttpClient)
    ELSE IF ~HasBucket(st, req.bucket) THEN Fail(st, GcsResponse("notFound"))
    ELSE IF IsSome(req.max_results) /\ Unwrap(req.max_results) < 0 THEN Fail(st, GcsResponse("invalid"))
    ELSE LET all == Listing(KeysOf(st, req.bucket), KeyList)
             page == IF IsSome(req.max_results) THEN Take(all, Unwrap(req.max_results)) ELSE all
             items == [i \in DOMAIN page |-> GcsObject(req.bucket, page[i], DataOf(st, req.bucket, page[i]))]
         IN Done(st, [items |-> IF page = <<>> /\ omit THEN None ELSE Some(items),
                      next_page_token |-> IF Len(page) < Len(all) THEN Some("next") ELSE None])

(***************************************************************************)
(* What a contract operation hands back: the SDK requests it issued, in    *)
(* order, and Ok(value), Err(error) or a panic; `store` is the provider    *)
(* afterwards.                                                             *)
(***************************************************************************)
Sent(api, req, r) == [api |-> api, req |-> req, ok |-> r.ok, transport |-> r.transport, err |-> r.err]
Ok(reqs, v, st) == [requests |-> reqs, status |-> "Ok", value |-> v, err |-> None, store |-> st]
Err(reqs, e, st) == [requests |-> reqs, status |-> "Err", value |-> None, err |-> e, store |-> st]
Panic(reqs, st) == [requests |-> reqs, status |-> "Panic", value |-> None, err |-> None, store |-> st]

\* The values of the domain model, and their accessors.
AWSBucket(bname, location) == [type |-> "AWSBucket", bucket_name |-> bname, location |-> location]
AWSObject(object, bucket) == [type |-> "AWSObject", object |-> object, bucket |-> bucket]
AWSObjectPut(object, bucket) == [type |-> "AWSObjectPut", object |-> object, bucket |-> bucket]
GoogleCloudObject(object) == [type |-> "GoogleCloudObject", object |-> object]
GoogleCloudBucket(bucket) == [type |-> "GoogleCloudBucket", bucket |-> bucket]

bucket_name(o) == IF o.type = "GoogleCloudObject" THEN o.object.bucket ELSE o.bucket
\* AWS: e_tag.unwrap().
id(o) == IF o.type = "GoogleCloudObject" THEN o.object.id ELSE Unwrap(o.object.e_tag)
\* Mutant: the Google Cloud object's name taken from its id.
name_from_id(o) == id(o)
\* AWS: self.id().
name(o) == IF o.type = "GoogleCloudObject" THEN o.object.name ELSE id(o)

\* From<SdkError<E, R>> for ClientError: into_service_error() keeps a service
\* error and turns every other failure into the unhandled one.
IntoServiceError(code) ==
    IF code \in {"ConstructionFailure", "DispatchFailure"} THEN "Unhandled" ELSE code
AwsFrom(variant, r) ==
    [client |-> "AWSClient", variant |-> variant, error |-> IntoServiceError(r.err)]

\* format!("bytes={}-{}", s, e) and its three siblings.
AwsRange(starting, ending) ==
    IF IsSome(starting) /\ IsSome(ending)
    THEN Some(<<Tok("bytes=", 0), Tok("num", Unwrap(starting)), Tok("-", 0), Tok("num", Unwrap(ending))>>)
    ELSE IF IsSome(starting)
    THEN Some(<<Tok("bytes=", 0), Tok("num", Unwrap(starting)), Tok("-", 0)>>)
    ELSE IF IsSome(ending)
    THEN Some(<<Tok("bytes=", 0), Tok("-", 0), Tok("num", Unwrap(ending))>>)
    ELSE None

\* get_object().bucket(&bucket).if_match(object): no key is set.
AwsGetObjectRequest(bucket, object, range) ==
    [bucket |-> bucket, key |-> None, if_match |-> Some(object), range |-> range]

\* `net`: the transport of the request; `body`: the read of the response body.
aws_static_download_object(st, bucket, object, starting, ending, net, body) ==
    LET req == AwsGetObjectRequest(bucket, object, AwsRange(starting, ending))
        r == S3GetObject(st, req, net)
        reqs == <<Sent("GetObject", req, r)>>
    IN IF ~r.ok THEN Err(reqs, AwsFrom("GetObjErr", r), r.store)
       ELSE IF ~body THEN Panic(reqs, r.store)
       ELSE Ok(reqs, r.out.body, r.store)

aws_static_upload_object(st, bucket, object, data, net) ==
    LET req == [bucket |-> bucket, key |-> object, body |-> data]
        r == S3PutObject(st, req, net)
        reqs == <<Sent("PutObject", req, r)>>
    IN IF ~r.ok THEN Err(reqs, AwsFrom("PutObjErr", r), r.store)
       ELSE Ok(reqs, AWSObjectPut(r.out, bucket), r.store)

\* Mutant: the download URL's shape handed out for uploads too.
aws_url_upload_object_as_download(st, bucket, object) ==
    Ok(<<>>, <<"https:", "", bucket \o ".s3.amazonaws.com">> \o object, st)
\* Ok("".to_string()): the empty string has no segment.
aws_url_upload_object(st, bucket, object) == Ok(<<>>, <<>>, st)

aws_url_download_object(st, bucket, object) ==
    Ok(<<>>, <<"https:", "", bucket \o ".s3.amazonaws.com">> \o object, st)

aws_remove_bucket(st, bucket, net) ==
    LET req == [bucket |-> bucket]
        r == S3DeleteBucket(st, req, net)
        reqs == <<Sent("DeleteBucket", req, r)>>
    IN IF ~r.ok THEN Err(reqs, AwsFrom("DelBucErr", r), r.store) ELSE Ok(reqs, None, r.store)

aws_remove_object(st, bucket, object, net) ==
    LET req == [bucket |-> bucket, key |-> object]
        r == S3DeleteObject(st, req, net)
        reqs == <<Sent("DeleteObject", req, r)>>
    IN IF ~r.ok THEN Err(reqs, AwsFrom("DelObjErr", r), r.store) ELSE Ok(reqs, None, r.store)

aws_create_bucket(st, bucket, net) ==
    LET req == [bucket |-> bucket]
        r == S3CreateBucket(st, req, net)
        reqs == <<Sent("CreateBucket", req, r)>>
    IN IF ~r.ok THEN Err(reqs, AwsFrom("CreObjErr", r), r.store)
       ELSE Ok(reqs, AWSBucket(bucket, r.out.location), r.store)

aws_get_object(st, bucket, object, net) ==
    LET req == AwsGetObjectRequest(bucket, object, None)
        r == S3GetObject(st, req, net)
        reqs == <<Sent("GetObject", req, r)>>
    IN IF ~r.ok THEN Err(reqs, AwsFrom("GetObjErr", r), r.store)
       ELSE Ok(reqs, AWSObject(r.out, bucket), r.store)

\* The copy, then get_object of the copy.
aws_copy_then_get(st, src_bucket, src_object, dest_bucket, dest_object, net, net2) ==
    LET req == [bucket |-> src_bucket, key |-> dest_object, copy_source |-> src_object]
        r == S3CopyObject(st, req, net)
        reqs == <<Sent("CopyObject", req, r)>>
    IN IF ~r.ok THEN Err(reqs, AwsFrom("CopObjErr", r), r.store)
       ELSE IF ~IsSome(r.out.copy_object_result) THEN Panic(reqs, r.store)
       ELSE LET g == aws_get_object(r.store, dest_bucket, dest_object, net2)
            IN [g EXCEPT !.requests = reqs \o @]

\* Mutant: the assertion left out.
aws_copy_object_unasserted(st, src_bucket, src_object, dest_bucket, dest_object, net, net2) ==
    aws_copy_then_get(st, src_bucket, src_object, dest_bucket, dest_object, net, net2)

\* Mutant: the get is made whether or not the copy succeeded.
aws_copy_object_get_anyway(st, src_bucket, src_object, dest_bucket, dest_object, net, net2) ==
    IF src_bucket # dest_bucket THEN Panic(<<>>, st)
    ELSE LET req == [bucket |-> src_bucket, key |-> dest_object, copy_source |-> src_object]
             r == S3CopyObject(st, req, net)
             g == aws_get_object(r.store, dest_bucket, dest_object, net2)
         IN [g EXCEPT !.requests = <<Sent("CopyObject", req, r)>> \o @]

\* assert_eq!(src_bucket, dest_bucket) before anything is sent.
aws_copy_object(st, src_bucket, src_object, dest_bucket, dest_object, net, net2) ==
    IF src_bucket # dest_bucket THEN Panic(<<>>, st)
    ELSE aws_copy_then_get(st, src_bucket, src_object, dest_bucket, dest_object, net, net2)

\* `max_results as i32`; buckets.unwrap(), and name.unwrap() of each bucket.
aws_list_buckets(st, max_results, net) ==
    LET req == [max_buckets |-> IF IsSome(max_results) THEN Some(AsI32(Unwrap(max_results))) ELSE None]
        r == S3ListBuckets(st, req, net)
        reqs == <<Sent("ListBuckets", req, r)>>
    IN IF ~r.ok THEN Err(reqs, AwsFrom("LstBucErr", r), r.store)
       ELSE IF ~IsSome(r.out.buckets) THEN Panic(reqs, r.store)
       ELSE LET bs == Unwrap(r.out.buckets)
            IN IF \E i \in DOMAIN bs : ~IsSome(bs[i].name) THEN Panic(reqs, r.store)
               ELSE Ok(reqs, [i \in DOMAIN bs |-> AWSBucket(Unwrap(bs[i].name), bs[i].bucket_region)], r.store)

\* location_constraint.unwrap().
aws_get_bucket(st, bucket, net, loc) ==
    LET req == [bucket |-> bucket]
        r == S3GetBucketLocation(st, req, net, loc)
        reqs == <<Sent("GetBucketLocation", req, r)>>
    IN IF ~r.ok THEN Err(reqs, AwsFrom("GetLocErr", r), r.store)
       ELSE IF ~IsSome(r.out.location_constraint) THEN Panic(reqs, r.store)
       ELSE Ok(reqs, AWSBucket(bucket, Some(Unwrap(r.out.location_constraint))), r.store)

\* The request's own result is what is returned: neither converted into a
\* ClientError (AWSError has no variant for it) nor into objects.
aws_list_objects(st, bucket, max_results, net) ==
    LET req == [bucket |-> bucket,
                max_keys |-> IF IsSome(max_results) THEN Some(AsI32(Unwrap(max_results))) ELSE None]
        r == S3ListObjects(st, req, net)
        reqs == <<Sent("ListObjects", req, r)>>
    IN IF ~r.ok THEN Err(reqs, [client |-> "", variant |-> "SdkError", error |-> r.err], r.store)
       ELSE Ok(reqs, r.out, r.store)

(***************************************************************************)
(* impl ClientInterface for GoogleCloud                                    *)
(***************************************************************************)
\* Mutant: every provider error put under HttpError.
GcpFrom_all_http(e) ==
    [client |-> "GoogleCloudClient",
     variant |-> IF e.kind = "SignedURLError" THEN "SignedURLError" ELSE "HttpError",
     error |-> e]

\* From<Error> and From<SignedURLError> for ClientError.
GcpFrom(e) ==
    [client |-> "GoogleCloudClient",
     variant |-> IF e.kind = "SignedURLError" THEN "SignedURLError"
                 ELSE IF e.kind = "Response" THEN "GoogleCloudStorageError" ELSE "HttpError",
     error |-> e]

gcp_static_download_object(st, bucket, object, starting, ending, net) ==
    LET req == [bucket |-> bucket, object |-> object]
        r == GcsDownloadObject(st, req, <<starting, ending>>, net)
        reqs == <<Sent("download_object", req, r)>>
    IN IF ~r.ok THEN Err(reqs, GcpFrom(r.err), r.store) ELSE Ok(reqs, r.out, r.store)

gcp_static_upload_object(st, bucket, object, data, net) ==
    LET req == [bucket |-> bucket]
        r == GcsUploadObject(st, req, data, object, net)
        reqs == <<Sent("upload_object", req, r)>>
    IN IF ~r.ok THEN Err(reqs, GcpFrom(r.err), r.store)
       ELSE Ok(reqs, GoogleCloudObject(r.out), r.store)

gcp_url_upload_object(st, bucket, object, net) ==
    LET r == GcsSignedUrl(st, bucket, object, "PUT", net)
        reqs == <<Sent("signed_url", [bucket |-> bucket, object |-> object], r)>>
    IN IF ~r.ok THEN Err(reqs, GcpFrom(r.err), r.store) ELSE Ok(reqs, r.out, r.store)

gcp_url_download_object(st, bucket, object, net) ==
    LET r == GcsSignedUrl(st, bucket, object, "GET", net)
        reqs == <<Sent("signed_url", [bucket |-> bucket, object |-> object], r)>>
    IN IF ~r.ok THEN Err(reqs, GcpFrom(r.err), r.store) ELSE Ok(reqs, r.out, r.store)

gcp_remove_bucket(st, bucket, net) ==
    LET req == [bucket |-> bucket]
        r == GcsDeleteBucket(st, req, net)
        reqs == <<Sent("delete_bucket", req, r)>>
    IN IF ~r.ok THEN Err(reqs, GcpFrom(r.err), r.store) ELSE Ok(reqs, None, r.store)

gcp_remove_object(st, bucket, object, net) ==
    LET req == [bucket |-> bucket, object |-> object]
        r == GcsDeleteObject(st, req, net)
        reqs == <<Sent("delete_object", req, r)>>
    IN IF ~r.ok THEN Err(reqs, GcpFrom(r.err), r.store) ELSE Ok(reqs, None, r.store)

gcp_create_bucket(st, bucket, net) ==
    LET req == [name |-> bucket]
        r == GcsInsertBucket(st, req, net)
        reqs == <<Sent("insert_bucket", req, r)>>
    IN IF ~r.ok THEN Err(reqs, GcpFrom(r.err), r.store)
       ELSE Ok(reqs, GoogleCloudBucket(r.out), r.store)

gcp_copy_object(st, src_bucket, src_object, dest_bucket, dest_object, net) ==
    LET req == [destination_bucket |-> dest_bucket, destination_object |-> dest_object,
                source_object |-> src_object, source_bucket |-> src_bucket]
        r == GcsCopyObject(st, req, net)
        reqs == <<Sent("copy_object", req, r)>>
    IN IF ~r.ok THEN Err(reqs, GcpFrom(r.err), r.store)
       ELSE Ok(reqs, GoogleCloudObject(r.out), r.store)

gcp_list_buckets(st, max_results, net) ==
    LET req == [max_results |-> IF IsSome(max_results) THEN Some(AsI32(Unwrap(max_results))) ELSE None]
        r == GcsListBuckets(st, req, net)
        reqs == <<Sent("list_buckets", req, r)>>
    IN IF ~r.ok THEN Err(reqs, GcpFrom(r.err), r.store)
       ELSE Ok(reqs, [i \in DOMAIN r.out.items |-> GoogleCloudBucket(r.out.items[i])], r.store)

gcp_get_bucket(st, bucket, net) ==
    LET req == [bucket |-> bucket]
        r == GcsGetBucket(st, req, net)
        reqs == <<Sent("get_bucket", req, r)>>
    IN IF ~r.ok THEN Err(reqs, GcpFrom(r.err), r.store)
       ELSE Ok(reqs, GoogleCloudBucket(r.out), r.store)

gcp_get_object(st, bucket, object, net) ==
    LET req == [bucket |-> bucket, object |-> object]
        r == GcsGetObject(st, req, net)
        reqs == <<Sent("get_object", req, r)>>
    IN IF ~r.ok THEN Err(reqs, GcpFrom(r.err), r.store)
       ELSE Ok(reqs, GoogleCloudObject(r.out), r.store)

\* Mutant: max_results not passed on to the request.
gcp_list_objects_unbounded(st, bucket, max_results, net, omit) ==
    LET req == [bucket |-> bucket, max_results |-> None]
        r == GcsListObjects(st, req, net, omit)
        reqs == <<Sent("list_objects", req, r)>>
    IN IF ~r.ok THEN Err(reqs, GcpFrom(r.err), r.store)
       ELSE IF ~IsSome(r.out.items) THEN Panic(reqs, r.store)
       ELSE LET items == Unwrap(r.out.items)
            IN Ok(reqs, [i \in DOMAIN items |-> GoogleCloudObject(items[i])], r.store)

\* items.unwrap().
gcp_list_objects(st, bucket, max_results, net, omit) ==
    LET req == [bucket |-> bucket,
                max_results |-> IF IsSome(max_results) THEN Some(AsI32(Unwrap(max_results))) ELSE None]
        r == GcsListObjects(st, req, net, omit)
        reqs == <<Sent("list_objects", req, r)>>
    IN IF ~r.ok THEN Err(reqs, GcpFrom(r.err), r.store)
       ELSE IF ~IsSome(r.out.items) THEN Panic(reqs, r.store)
       ELSE LET items == Unwrap(r.out.items)
            IN Ok(reqs, [i \in DOMAIN items |-> GoogleCloudObject(items[i])], r.store)

(***************************************************************************)
(* The caller: one contract call at a time on the adapter it constructed;  *)
(* `call` is the call it awaited, with its arguments and what came back.   *)
(***************************************************************************)
Idle == [op |-> "idle"]
IsAws == adapter = "AWSClient"
NoHist == [bucket |-> "", object |-> <<>>, count |-> 0]

Init ==
    /\ adapter \in Adapters
    /\ store = EmptyStore
    /\ call = Idle
    /\ hist = NoHist

\* The call record: the operation, its arguments, and the result less the store.
Called(op, args, res) ==
    [op |-> op, args |-> args, requests |-> res.requests, status |-> res.status,
     value |-> res.value, err |-> res.err, before |-> store]

Finish(op, args, res) ==
    /\ call' = Called(op, args, res)
    /\ store' = res.store
    /\ UNCHANGED adapter

\* The run of remove_object calls on one key that the caller is in the middle
\* of: it starts with a removal that returned Ok, and counts up to two.
Removing(bucket, object, res) ==
    IF hist.count > 0 /\ hist.bucket = bucket /\ hist.object = object
    THEN [hist EXCEPT !.count = 2]
    ELSE IF res.status = "Ok" THEN [bucket |-> bucket, object |-> object, count |-> 1]
    ELSE NoHist

static_download_object ==
    /\ call = Idle
    /\ \E bucket \in Buckets, object \in Keys, starting \in Offsets, ending \in Offsets, net \in BOOLEAN, body \in BOOLEAN :
        /\ Finish("static_download_object",
                  [bucket |-> bucket, object |-> object, starting |-> starting, ending |-> ending],
                  IF IsAws THEN aws_static_download_object(store, bucket, object, starting, ending, net, body)
                  ELSE gcp_static_download_object(store, bucket, object, starting, ending, net /\ body))
        /\ hist' = NoHist

static_upload_object ==
    /\ call = Idle
    /\ \E bucket \in Buckets, object \in Keys, data \in Payloads, net \in BOOLEAN :
        /\ Finish("static_upload_object", [bucket |-> bucket, object |-> object, data |-> data],
                  IF IsAws THEN aws_static_upload_object(store, bucket, object, data, net)
                  ELSE gcp_static_upload_object(store, bucket, object, data, net))
        /\ hist' = NoHist

url_upload_object ==
    /\ call = Idle
    /\ \E bucket \in Buckets, object \in Keys, net \in BOOLEAN :
        /\ Finish("url_upload_object", [bucket |-> bucket, object |-> object],
                  IF IsAws THEN aws_url_upload_object(store, bucket, object)
                  ELSE gcp_url_upload_object(store, bucket, object, net))
        /\ hist' = NoHist

url_download_object ==
    /\ call = Idle
    /\ \E bucket \in Buckets, object \in Keys, net \in BOOLEAN :
        /\ Finish("url_download_object", [bucket |-> bucket, object |-> object],
                  IF IsAws THEN aws_url_download_object(store, bucket, object)
                  ELSE gcp_url_download_object(store, bucket, object, net))
        /\ hist' = NoHist

remove_bucket ==
    /\ call = Idle
    /\ \E bucket \in Buckets, net \in BOOLEAN :
        /\ Finish("remove_bucket", [bucket |-> bucket],
                  IF IsAws THEN aws_remove_bucket(store, bucket, net)
                  ELSE gcp_remove_bucket(store, bucket, net))
        /\ hist' = NoHist

remove_object ==
    /\ call = Idle
    /\ \E bucket \in Buckets, object \in Keys, net \in BOOLEAN :
        LET res == IF IsAws THEN aws_remove_object(store, bucket, object, net)
                   ELSE gcp_remove_object(store, bucket, object, net)
        IN /\ Finish("remove_object", [bucket |-> bucket, object |-> object], res)
           /\ hist' = Removing(bucket, object, res)

create_bucket ==
    /\ call = Idle
    /\ \E bucket \in Buckets, net \in BOOLEAN :
        /\ Finish("create_bucket", [bucket |-> bucket],
                  IF IsAws THEN aws_create_bucket(store, bucket, net)
                  ELSE gcp_create_bucket(store, bucket, net))
        /\ hist' = NoHist

copy_object ==
    /\ call = Idle
    /\ \E src_bucket \in Buckets, src_object \in SrcNames, dest_bucket \in Buckets, dest_object \in Keys,
       net \in BOOLEAN, net2 \in BOOLEAN :
        /\ Finish("copy_object",
                  [src_bucket |-> src_bucket, src_object |-> src_object,
                   dest_bucket |-> dest_bucket, dest_object |-> dest_object],
                  IF IsAws THEN aws_copy_object(store, src_bucket, src_object, dest_bucket, dest_object, net, net2)
                  ELSE gcp_copy_object(store, src_bucket, src_object, dest_bucket, dest_object, net /\ net2))
        /\ hist' = NoHist

list_buckets ==
    /\ call = Idle
    /\ \E max_results \in MaxResultsArgs, net \in BOOLEAN :
        /\ Finish("list_buckets", [max_results |-> max_results],
                  IF IsAws THEN aws_list_buckets(store, max_results, net)
                  ELSE gcp_list_buckets(store, max_results, net))
        /\ hist' = NoHist

get_bucket ==
    /\ call = Idle
    /\ \E bucket \in Buckets, net \in BOOLEAN, loc \in {None, Some("eu-west-1")} :
        /\ Finish("get_bucket", [bucket |-> bucket],
                  IF IsAws THEN aws_get_bucket(store, bucket, net, loc)
                  ELSE gcp_get_bucket(store, bucket, net))
        /\ hist' = NoHist

get_object ==
    /\ call = Idle
    /\ \E bucket \in Buckets, object \in Keys, net \in BOOLEAN :
        /\ Finish("get_object", [bucket |-> bucket, object |-> object],
                  IF IsAws THEN aws_get_object(store, bucket, object, net)
                  ELSE gcp_get_object(store, bucket, object, net))
        /\ hist' = NoHist

\* A listing is how the caller looks at what its removals left: it ends no run.
list_objects ==
    /\ call = Idle
    /\ \E bucket \in Buckets, max_results \in MaxResultsArgs, net \in BOOLEAN, omit \in BOOLEAN :
        /\ Finish("list_objects", [bucket |-> bucket, max_results |-> max_results],
                  IF IsAws THEN aws_list_objects(store, bucket, max_results, net)
                  ELSE gcp_list_objects(store, bucket, max_results, net, omit))
        /\ UNCHANGED hist

\* The caller takes the result; the adapter keeps nothing of the call.
Return ==
    /\ call # Idle
    /\ call' = Idle
    /\ UNCHANGED <<adapter, store, hist>>

Next ==
    \/ static_download_object
    \/ static_upload_object
    \/ url_upload_object
    \/ url_download_object
    \/ remove_bucket
    \/ remove_object
    \/ create_bucket
    \/ copy_object
    \/ list_buckets
    \/ get_bucket
    \/ get_object
    \/ list_objects
    \/ Return

Spec == Init /\ [][Next]_vars

(***************************************************************************)
(* What the claims speak of.                                               *)
(***************************************************************************)
Calling(op) == call # Idle /\ call.op = op
\* A request of the call failed; the transport failed under one of them.
RequestFailed == \E i \in DOMAIN call.requests : ~call.requests[i].ok
TransportFailed == \E i \in DOMAIN call.requests : call.requests[i].transport

AwsCrossBucketCopy ==
    Calling("copy_object") /\ IsAws /\ call.args.src_bucket # call.args.dest_bucket
AwsSameBucketCopy ==
    Calling("copy_object") /\ IsAws /\ call.args.src_bucket = call.args.dest_bucket

\* C1: on AWS S3 a copy_object across two buckets fails on every call, with no
\* request issued and the provider untouched, and by a panic, which no failed
\* request of a copy within one bucket ends in (that one returns Err).
C1_CrossBucketCopyFailsFast ==
    /\ AwsCrossBucketCopy =>
          call.status = "Panic" /\ call.requests = <<>> /\ store = call.before
    /\ (AwsSameBucketCopy /\ RequestFailed) =>
          call.status = "Err" /\ call.err.client = "AWSClient"

C1_Witness ==
    AwsCrossBucketCopy /\ call.status = "Panic" /\ HasObject(store, "b1", <<"k1">>)
    /\ call.args.src_bucket = "b1" /\ call.args.src_object = <<"b1", "k1">>

\* The object a download or a lookup asks for is in the provider.
AsksStoredObject ==
    HasObject(call.before, call.args.bucket, call.args.object)
StoredData == DataOf(call.before, call.args.bucket, call.args.object)

\* C2: what static_upload_object stored under (bucket, key), a full
\* static_download_object of (bucket, key) returns byte for byte, the empty
\* payload included, on both adapters (the transport permitting).
C2_RoundTrip ==
    /\ (Calling("static_upload_object") /\ call.status = "Ok") =>
          /\ HasObject(store, call.args.bucket, call.args.object)
          /\ DataOf(store, call.args.bucket, call.args.object) = call.args.data
    /\ (/\ Calling("static_download_object")
        /\ call.args.starting = None /\ call.args.ending = None
        /\ AsksStoredObject /\ ~TransportFailed) =>
          call.status = "Ok" /\ call.value = StoredData

\* C3: a download of bytes start..end, start <= end < L, of a stored object of
\* length L returns those end - start + 1 bytes, on both adapters.
C3_InclusiveRange ==
    (/\ Calling("static_download_object")
     /\ IsSome(call.args.starting) /\ IsSome(call.args.ending)
     /\ AsksStoredObject /\ ~TransportFailed
     /\ Unwrap(call.args.starting) <= Unwrap(call.args.ending)
     /\ Unwrap(call.args.ending) < Len(StoredData)) =>
        /\ call.status = "Ok"
        /\ Len(call.value) = Unwrap(call.args.ending) - Unwrap(call.args.starting) + 1
        /\ call.value = SubSeq(StoredData, Unwrap(call.args.starting) + 1, Unwrap(call.args.ending) + 1)

\* C4: url_upload_object on AWS S3 returns Ok of the empty string whatever
\* its arguments, and issues no request.
C4_AwsUploadUrlIsEmpty ==
    (Calling("url_upload_object") /\ IsAws) =>
        call.status = "Ok" /\ call.value = <<>> /\ call.requests = <<>> /\ store = call.before

C4_Witness ==
    Calling("url_upload_object") /\ IsAws /\ call.status = "Ok"
    /\ HasObject(store, call.args.bucket, call.args.object)

\* C5: get_object of a bucket/object pair that exists returns an Object whose
\* bucket_name is the bucket asked for and whose name and id are not empty,
\* on both adapters (the transport permitting).
C5_GetObjectDescribesObject ==
    (Calling("get_object") /\ AsksStoredObject /\ ~TransportFailed) =>
        /\ call.status = "Ok"
        /\ bucket_name(call.value) = call.args.bucket
        /\ name(call.value) # <<>>
        /\ id(call.value) # <<>>

\* The key a call that returns an Object was given for it.
ReturnsObject ==
    Calling("static_upload_object") \/ Calling("get_object") \/ Calling("copy_object")
KeyArgument ==
    IF call.op = "copy_object" THEN call.args.dest_object ELSE call.args.object

\* C6 as stated: the name of every Object that static_upload_object, get_object
\* or copy_object returns is the key the caller gave, on both adapters.
C6_NameIsKey ==
    (ReturnsObject /\ call.status = "Ok") => name(call.value) = KeyArgument

\* C6, amended: on the Google Cloud adapter the name of every such Object is
\* the key the caller gave; on the AWS adapter it is the Object's id, the
\* entity tag S3 reported for the content.
C6_NameIsKeyOrETag ==
    (ReturnsObject /\ call.status = "Ok") =>
        IF IsAws
        THEN /\ name(call.value) = id(call.value)
             /\ name(call.value) = ETag(DataOf(store, bucket_name(call.value), KeyArgument))
        ELSE name(call.value) = KeyArgument

C6_Witness ==
    /\ Calling("static_upload_object") /\ call.status = "Ok" /\ IsAws
    /\ name(call.value) = ETag(call.args.data) /\ call.args.data # <<>>

\* The names a list_objects call returned, in order.
ListedObjects ==
    IF IsAws THEN [i \in DOMAIN Unwrap(call.value.contents) |-> Unwrap(Unwrap(call.value.contents)[i].key)]
    ELSE [i \in DOMAIN call.value |-> name(call.value[i])]
ListedBuckets ==
    IF IsAws THEN [i \in DOMAIN call.value |-> call.value[i].bucket_name]
    ELSE [i \in DOMAIN call.value |-> call.value[i].bucket.name]
Elements(q) == {q[i] : i \in DOMAIN q}

\* C7: after one remove_object(bucket, key) that succeeded, and after a second
\* one on the same key whatever it returned, list_objects(bucket) succeeds
\* (the transport permitting), lists no object of that key, and lists every
\* other object of the bucket.
C7_RemoveTwiceThenList ==
    (/\ Calling("list_objects") /\ hist.count > 0 /\ call.args.bucket = hist.bucket
     /\ call.args.max_results = None /\ ~TransportFailed) =>
        /\ call.status = "Ok"
        /\ hist.object \notin Elements(ListedObjects)
        /\ KeysOf(call.before, hist.bucket) \ {hist.object} \subseteq Elements(ListedObjects)

\* C8: list_objects and list_buckets with max_results = N issue one request
\* and return at most N entries, the first of the provider's listing, also
\* when more than N exist.
C8_AtMostMaxResults ==
    /\ (Calling("list_objects") /\ IsSome(call.args.max_results)) =>
          /\ Len(call.requests) = 1
          /\ call.status = "Ok" =>
                /\ LeqU32(Len(ListedObjects), Unwrap(call.args.max_results))
                /\ ListedObjects = SubSeq(Listing(KeysOf(call.before, call.args.bucket), KeyList),
                                          1, Len(ListedObjects))
    /\ (Calling("list_buckets") /\ IsSome(call.args.max_results)) =>
          /\ Len(call.requests) = 1
          /\ call.status = "Ok" =>
                /\ LeqU32(Len(ListedBuckets), Unwrap(call.args.max_results))
                /\ ListedBuckets = SubSeq(Listing(call.before.buckets, BucketList), 1, Len(ListedBuckets))

C8_Witness ==
    /\ Calling("list_objects") /\ call.args.max_results = Some(U32(0, 1)) /\ call.status = "Ok"
    /\ Cardinality(KeysOf(call.before, call.args.bucket)) = 2
    /\ Len(ListedObjects) = 1

\* C9: whenever a request of a contract operation fails, the operation
\* returns Err of a ClientError of its adapter's variant: not Ok, no panic.
C9_FailuresAreReturned ==
    (call # Idle /\ RequestFailed) =>
        call.status = "Err" /\ call.err.client = adapter

\* The read-after-write of an AWS copy within one bucket: the copy request,
\* and a get request only if the copy succeeded.
CopyThenGetRequests ==
    /\ Len(call.requests) >= 1
    /\ call.requests[1].api = "CopyObject"
    /\ IF call.requests[1].ok
       THEN /\ Len(call.requests) = 2
            /\ call.requests[2].api = "GetObject"
       ELSE Len(call.requests) = 1

AwsLocalCall ==
    IsAws /\ (Calling("url_upload_object") \/ Calling("url_download_object") \/ AwsCrossBucketCopy)

GcpHttpFailure(i) ==
    /\ call # Idle /\ ~IsAws /\ i \in DOMAIN call.requests
    /\ ~call.requests[i].ok /\ call.requests[i].api # "signed_url"

\* C11: in the Google Cloud adapter a provider error that is a service error
\* response is returned as GoogleCloudStorageError with that response's error
\* items, and every other provider HTTP error as HttpError with the error
\* itself: a transport failure is never under the service variant, nor a
\* service error under HttpError.
C11_TransportAndServiceKept ==
    \A i \in 1..2 : GcpHttpFailure(i) =>
        /\ call.status = "Err"
        /\ call.err.client = "GoogleCloudClient"
        /\ call.err.error = call.requests[i].err
        /\ IF call.requests[i].err.kind = "Response"
           THEN /\ call.err.variant = "GoogleCloudStorageError"
                /\ call.err.error.errors = call.requests[i].err.errors
                /\ ~call.requests[i].transport
           ELSE call.err.variant = "HttpError" /\ call.requests[i].transport

C11_Witness ==
    /\ GcpHttpFailure(1) /\ Calling("remove_object")
    /\ call.err.variant = "GoogleCloudStorageError"
    /\ call.err.error.errors = <<"notFound">>
    /\ HasBucket(store, call.args.bucket)

====
